---- MODULE Spec2Model ----
(***************************************************************************)
(* pq.c: a command-line utility that manages POSIX message queues through  *)
(* the mqueue pseudo-filesystem mounted on /dev/mqueue.                    *)
(*                                                                         *)
(* The state is the part of the kernel the program talks to (the mount     *)
(* point directory, the mount table entry, the queue namespace) and the    *)
(* record of the most recent invocations of the program.  One action is    *)
(* one run of main() with one argument vector.  The outcome of a system    *)
(* call is decided by the kernel state, unless the environment makes it    *)
(* fail for a reason the kernel state does not show (permissions,          *)
(* resources): that is the injected errno each call takes.                 *)
(***************************************************************************)
EXTENDS Integers, Sequences, FiniteSets

VARIABLES os, cur, prev, dirents

vars == <<os, cur, prev, dirents>>

(* ---------------------------------------------------------------- bounds *)

\* longest directory content enumerated by the listing specification
MaxEntries == 3

(* --------------------------------------------------------------- strings *)
\* A C string is the sequence of its characters.

S_pq     == <<"p", "q">>
S_ls     == <<"l", "s">>
S_umount == <<"u", "m", "o", "u", "n", "t">>
S_stat   == <<"s", "t", "a", "t">>
S_unlink == <<"u", "n", "l", "i", "n", "k">>
S_bad    == <<"r", "m">>

\* queue names the callers use
QueueNames == { <<"/", "a">>, <<"/", ".", "b">> }

\* the mqueue filesystem shows queue "/name" as the directory entry "name"
EntryName(q) == Tail(q)

\* the attribute sets queues are created with: an empty queue with the Linux
\* defaults, and a smaller non-blocking queue holding one message
Attrs ==
    { [mq_flags |-> 0,    mq_maxmsg |-> 10, mq_msgsize |-> 8192, mq_curmsgs |-> 0],
      [mq_flags |-> 2048, mq_maxmsg |-> 4,  mq_msgsize |-> 1024, mq_curmsgs |-> 1] }

OK == "OK"

(* ---------------------------------------------------------- system calls *)
\* Each call takes the kernel state and the errno the environment injects
\* (OK for none) and yields the call's result and the kernel state after it.

sys_mkdir(k, inj) ==
    IF inj # OK THEN [res |-> inj, os |-> k]
    ELSE IF k.dir THEN [res |-> "EEXIST", os |-> k]
    ELSE [res |-> OK, os |-> [k EXCEPT !.dir = TRUE]]

sys_mount(k, inj) ==
    IF inj # OK THEN [res |-> inj, os |-> k]
    ELSE IF ~k.dir THEN [res |-> "ENOENT", os |-> k]
    ELSE IF k.mounts > 0 THEN [res |-> "EBUSY", os |-> k]
    ELSE [res |-> OK, os |-> [k EXCEPT !.mounts = @ + 1]]

sys_umount(k, inj) ==
    IF inj # OK THEN [res |-> inj, os |-> k]
    ELSE IF k.mounts = 0 THEN [res |-> "EINVAL", os |-> k]
    ELSE IF k.busy THEN [res |-> "EBUSY", os |-> k]
    ELSE [res |-> OK, os |-> [k EXCEPT !.mounts = @ - 1]]

sys_rmdir(k, inj) ==
    IF inj # OK THEN [res |-> inj, os |-> k]
    ELSE IF ~k.dir THEN [res |-> "ENOENT", os |-> k]
    ELSE IF k.mounts > 0 THEN [res |-> "EBUSY", os |-> k]
    ELSE [res |-> OK, os |-> [k EXCEPT !.dir = FALSE]]

sys_opendir(k, inj) ==
    IF inj # OK THEN [res |-> inj, os |-> k]
    ELSE IF ~k.dir THEN [res |-> "ENOENT", os |-> k]
    ELSE [res |-> OK, os |-> k]

sys_mq_open(k, name, inj) ==
    IF inj # OK THEN [res |-> inj, os |-> k]
    ELSE IF name \notin DOMAIN k.queues THEN [res |-> "ENOENT", os |-> k]
    ELSE [res |-> OK, os |-> k]

sys_mq_getattr(k, name, inj) ==
    IF inj # OK \/ name \notin DOMAIN k.queues
    THEN [res |-> IF inj # OK THEN inj ELSE "EBADF", os |-> k, attr |-> CHOOSE a \in Attrs : TRUE]
    ELSE [res |-> OK, os |-> k, attr |-> k.queues[name]]

\* the entries readdir yields for the mount point: the mqueue root when the
\* filesystem is mounted, the empty underlying directory otherwise
Dots == { [d_name |-> <<".">>, d_type |-> "DT_DIR"], [d_name |-> <<".", ".">>, d_type |-> "DT_DIR"] }

QueueEntry(q) == [d_name |-> EntryName(q), d_type |-> "DT_REG"]

DirContent(k) ==
    IF k.mounts > 0 THEN Dots \cup { QueueEntry(q) : q \in DOMAIN k.queues } ELSE Dots

\* readdir promises no order: ord is the order the kernel happens to use
\* for the entries a directory can hold
Enumeration(k, ord) == SelectSeq(ord, LAMBDA e : e \in DirContent(k))

sys_mq_unlink(k, name, inj) ==
    IF inj # OK THEN [res |-> inj, os |-> k]
    ELSE IF name \notin DOMAIN k.queues THEN [res |-> "ENOENT", os |-> k]
    ELSE [res |-> OK,
          os |-> [k EXCEPT !.queues = [q \in (DOMAIN k.queues) \ {name} |-> k.queues[q]]]]

(* ------------------------------------------------------------ the process *)
\* c is the running process: the kernel it acts on, what it has written to
\* stdout and stderr, the system calls it has made, the queue descriptors
\* it holds, and the boolean the function under way returns.

NewProcess(k) ==
    [os |-> k, out |-> <<>>, err |-> <<>>, calls |-> <<>>, fds |-> 0, ok |-> TRUE]

Call(c, name, r) ==
    [c EXCEPT !.os = r.os, !.calls = Append(@, [call |-> name, res |-> r.res])]

Errno(c) == c.calls[Len(c.calls)].res

Eprint(c, line) == [c EXCEPT !.err = Append(@, line)]

Output(c, line) == [c EXCEPT !.out = Append(@, line)]

Return(c, b) == [c EXCEPT !.ok = b]

\* mutant: the EEXIST of mkdir is not tolerated
ensure_existsIsFatal(c, f) ==
    LET c1 == Call(c, "mkdir", sys_mkdir(c.os, f.mkdir))
    IN  IF Errno(c1) # OK
        THEN Return(Eprint(c1, [msg |-> "Couldn't create posix filesystem mount point",
                                errno |-> Errno(c1)]), FALSE)
        ELSE LET c2 == Call(c1, "mount", sys_mount(c1.os, f.mount))
             IN  IF Errno(c2) # OK /\ Errno(c2) # "EBUSY"
                 THEN Return(Eprint(c2, [msg |-> "Couldn't mount the posix queue filesystem",
                                         errno |-> Errno(c2)]), FALSE)
                 ELSE Return(c2, TRUE)

\* mutant: a failed mkdir is reported but the function goes on to mount
ensure_mountAfterFailedMkdir(c, f) ==
    LET c1 == Call(c, "mkdir", sys_mkdir(c.os, f.mkdir))
        c1e == IF Errno(c1) # OK /\ Errno(c1) # "EEXIST"
               THEN Eprint(c1, [msg |-> "Couldn't create posix filesystem mount point",
                                errno |-> Errno(c1)])
               ELSE c1
        c2 == Call(c1e, "mount", sys_mount(c1e.os, f.mount))
    IN  IF Errno(c2) # OK /\ Errno(c2) # "EBUSY"
        THEN Return(Eprint(c2, [msg |-> "Couldn't mount the posix queue filesystem",
                                errno |-> Errno(c2)]), FALSE)
        ELSE Return(c2, c1e.err = c.err)

\* mutant: an existing mount point is taken to be mounted already
ensure_existsMeansMounted(c, f) ==
    LET c1 == Call(c, "mkdir", sys_mkdir(c.os, f.mkdir))
    IN  IF Errno(c1) = "EEXIST" THEN Return(c1, TRUE)
        ELSE IF Errno(c1) # OK
        THEN Return(Eprint(c1, [msg |-> "Couldn't create posix filesystem mount point",
                                errno |-> Errno(c1)]), FALSE)
        ELSE LET c2 == Call(c1, "mount", sys_mount(c1.os, f.mount))
             IN  IF Errno(c2) # OK /\ Errno(c2) # "EBUSY"
                 THEN Return(Eprint(c2, [msg |-> "Couldn't mount the posix queue filesystem",
                                         errno |-> Errno(c2)]), FALSE)
                 ELSE Return(c2, TRUE)

ensurePosixQueueFileSystemMounted(c, f) ==
    LET c1 == Call(c, "mkdir", sys_mkdir(c.os, f.mkdir))
    IN  IF Errno(c1) # OK /\ Errno(c1) # "EEXIST"
        THEN Return(Eprint(c1, [msg |-> "Couldn't create posix filesystem mount point",
                                errno |-> Errno(c1)]), FALSE)
        ELSE LET c2 == Call(c1, "mount", sys_mount(c1.os, f.mount))
             IN  IF Errno(c2) # OK /\ Errno(c2) # "EBUSY"
                 THEN Return(Eprint(c2, [msg |-> "Couldn't mount the posix queue filesystem",
                                         errno |-> Errno(c2)]), FALSE)
                 ELSE Return(c2, TRUE)

\* mutant: a busy filesystem is tolerated silently, as it is for rmdir
unmount_busyIsSuccess(c, f) ==
    LET c1 == Call(c, "umount", sys_umount(c.os, f.umount))
    IN  IF Errno(c1) # OK /\ Errno(c1) = "EBUSY"
        THEN Return(c1, TRUE)
        ELSE LET c2 == Call(c1, "rmdir", sys_rmdir(c1.os, f.rmdir))
             IN  IF Errno(c2) # OK /\ Errno(c2) # "EBUSY"
                 THEN Return(Eprint(c2, [msg |-> "Couldn't remove posix filesystem mount point",
                                         errno |-> Errno(c2)]), FALSE)
                 ELSE Return(c2, TRUE)

unmountPosixQueue(c, f) ==
    LET c1 == Call(c, "umount", sys_umount(c.os, f.umount))
    IN  IF Errno(c1) # OK /\ Errno(c1) = "EBUSY"
        THEN Return(Eprint(c1, [msg |-> "Couldn't unmount the posix queue filesystem",
                                errno |-> Errno(c1)]), FALSE)
        ELSE LET c2 == Call(c1, "rmdir", sys_rmdir(c1.os, f.rmdir))
             IN  IF Errno(c2) # OK /\ Errno(c2) # "EBUSY"
                 THEN Return(Eprint(c2, [msg |-> "Couldn't remove posix filesystem mount point",
                                         errno |-> Errno(c2)]), FALSE)
                 ELSE Return(c2, TRUE)

\* mutant: an entry is skipped only when it is both a directory and hidden
RECURSIVE readdirLoop_and(_, _, _)
readdirLoop_and(c, ents, count) ==
    IF ents = <<>> THEN [c |-> c, count |-> count]
    ELSE LET ent == Head(ents)
         IN  IF ent.d_type = "DT_DIR" /\ ent.d_name[1] = "."
             THEN readdirLoop_and(c, Tail(ents), count)
             ELSE readdirLoop_and(Output(c, [tag |-> "name", name |-> ent.d_name]),
                                  Tail(ents), count + 1)

\* the readdir loop: ents is what is left to read, count the names printed
RECURSIVE readdirLoop(_, _, _)
readdirLoop(c, ents, count) ==
    IF ents = <<>> THEN [c |-> c, count |-> count]
    ELSE LET ent == Head(ents)
         IN  IF ent.d_type = "DT_DIR" \/ ent.d_name[1] = "."
             THEN readdirLoop(c, Tail(ents), count)
             ELSE readdirLoop(Output(c, [tag |-> "name", name |-> ent.d_name]),
                              Tail(ents), count + 1)

NoQueues == [tag |-> "(No posix queues)"]

listPosixQueues(c, f, ents) ==
    LET c1 == Call(c, "opendir", sys_opendir(c.os, f.opendir))
    IN  IF Errno(c1) # OK
        THEN Return(Eprint(c1, [msg |-> "Couldn't read from the posix queue filesystem"]), FALSE)
        ELSE LET l  == readdirLoop(c1, ents, 0)
                 c2 == IF l.count = 0 THEN Output(l.c, NoQueues) ELSE l.c
             IN  Return(Call(c2, "closedir", [res |-> OK, os |-> c2.os]), TRUE)

mq_close(c) ==
    [Call(c, "mq_close", [res |-> OK, os |-> c.os]) EXCEPT !.fds = @ - 1]

\* mutant: the descriptor is not closed when the attribute query fails
printInfo_leakOnQueryFailure(c, f, queue_name) ==
    LET c1 == Call(c, "mq_open", sys_mq_open(c.os, queue_name, f.mq_open))
    IN  IF Errno(c1) # OK
        THEN Return(Eprint(c1, [msg |-> "Couldn't open queue", name |-> queue_name,
                                errno |-> Errno(c1)]), FALSE)
        ELSE LET c2 == [c1 EXCEPT !.fds = @ + 1]
                 r  == sys_mq_getattr(c2.os, queue_name, f.mq_getattr)
                 c3 == Call(c2, "mq_getattr", r)
             IN  IF Errno(c3) # OK
                 THEN Return(Eprint(c3, [msg |-> "Failed to query queue",
                                         name |-> queue_name,
                                         errno |-> Errno(c3)]), FALSE)
                 ELSE LET c4 == Output(Output(Output(Output(c3,
                                    [tag |-> "flags",   val |-> r.attr.mq_flags]),
                                    [tag |-> "maxmsg",  val |-> r.attr.mq_maxmsg]),
                                    [tag |-> "msgsize", val |-> r.attr.mq_msgsize]),
                                    [tag |-> "curmsgs", val |-> r.attr.mq_curmsgs])
                      IN  Return(mq_close(c4), TRUE)

\* mutant: the result of mq_open is not checked
printInfo_openUnchecked(c, f, queue_name) ==
    LET c1 == Call(c, "mq_open", sys_mq_open(c.os, queue_name, f.mq_open))
        c2 == [c1 EXCEPT !.fds = @ + 1]
        r  == sys_mq_getattr(c2.os, queue_name, f.mq_getattr)
        c3 == Call(c2, "mq_getattr", r)
    IN  IF Errno(c3) # OK
        THEN Return(mq_close(Eprint(c3, [msg |-> "Failed to query queue",
                                         name |-> queue_name,
                                         errno |-> Errno(c3)])), FALSE)
        ELSE LET c4 == Output(Output(Output(Output(c3,
                           [tag |-> "flags",   val |-> r.attr.mq_flags]),
                           [tag |-> "maxmsg",  val |-> r.attr.mq_maxmsg]),
                           [tag |-> "msgsize", val |-> r.attr.mq_msgsize]),
                           [tag |-> "curmsgs", val |-> r.attr.mq_curmsgs])
             IN  Return(mq_close(c4), TRUE)

printPosixQueueInfo(c, f, queue_name) ==
    LET c1 == Call(c, "mq_open", sys_mq_open(c.os, queue_name, f.mq_open))
    IN  IF Errno(c1) # OK
        THEN Return(Eprint(c1, [msg |-> "Couldn't open queue", name |-> queue_name,
                                errno |-> Errno(c1)]), FALSE)
        ELSE LET c2 == [c1 EXCEPT !.fds = @ + 1]
                 r  == sys_mq_getattr(c2.os, queue_name, f.mq_getattr)
                 c3 == Call(c2, "mq_getattr", r)
             IN  IF Errno(c3) # OK
                 THEN Return(mq_close(Eprint(c3, [msg |-> "Failed to query queue",
                                                  name |-> queue_name,
                                                  errno |-> Errno(c3)])), FALSE)
                 ELSE LET c4 == Output(Output(Output(Output(c3,
                                    [tag |-> "flags",   val |-> r.attr.mq_flags]),
                                    [tag |-> "maxmsg",  val |-> r.attr.mq_maxmsg]),
                                    [tag |-> "msgsize", val |-> r.attr.mq_msgsize]),
                                    [tag |-> "curmsgs", val |-> r.attr.mq_curmsgs])
                      IN  Return(mq_close(c4), TRUE)

\* mutant: the result of mq_unlink is not checked
unlink_unchecked(c, f, queue_name) ==
    Return(Call(c, "mq_unlink", sys_mq_unlink(c.os, queue_name, f.mq_unlink)), TRUE)

unlinkPosixQueue(c, f, queue_name) ==
    LET c1 == Call(c, "mq_unlink", sys_mq_unlink(c.os, queue_name, f.mq_unlink))
    IN  IF Errno(c1) # OK
        THEN Return(Eprint(c1, [msg |-> "Failed unlink queue", name |-> queue_name,
                                errno |-> Errno(c1)]), FALSE)
        ELSE Return(c1, TRUE)

\* mutant: the usage text goes to stdout
usage_stdout(c, progname) == Output(c, [msg |-> "Usage", progname |-> progname])

usage(c, progname) == Eprint(c, [msg |-> "Usage", progname |-> progname])

InvalidUsage(c, argv) ==
    usage(Eprint(c, [msg |-> "Error: Invalid usage"]),
          IF Len(argv) > 0 THEN argv[1] ELSE S_pq)

\* the value main returns, as the parent sees it
ExitStatus(n) == n % 256

\* The record an invocation leaves: what the parent and the user see of it,
\* and the kernel state when main was entered, when EnsureMounted returned
\* and when main returned.
Finished(argv, k, c, ens, rc) ==
    [argv |-> argv, exit |-> ExitStatus(rc), out |-> c.out, err |-> c.err,
     calls |-> c.calls, fds |-> c.fds, os0 |-> k, os |-> c.os,
     ensRan |-> ens.calls # <<>>, ensOk |-> ens.calls # <<>> /\ ens.ok,
     ensErr |-> ens.err, osEns |-> ens.os]

\* argv[1] is the program name (argv[0] of the C program), argc is Len(argv)
main(argv, k, f, ord) ==
    LET argc == Len(argv)
        c0   == NewProcess(k)
    IN  IF argc < 2 THEN Finished(argv, k, InvalidUsage(c0, argv), c0, -1)
        ELSE
        LET ens == ensurePosixQueueFileSystemMounted(c0, f)
        IN  IF ~ens.ok THEN Finished(argv, k, ens, ens, -1)
            ELSE IF argv[2] = S_ls
            THEN LET c == listPosixQueues(ens, f, Enumeration(ens.os, ord))
                 IN  Finished(argv, k, c, ens, IF c.ok THEN 0 ELSE -1)
            ELSE IF argv[2] = S_umount
            THEN LET c == unmountPosixQueue(ens, f)
                 IN  Finished(argv, k, c, ens, IF c.ok THEN 0 ELSE -1)
            ELSE IF argv[2] = S_stat
            THEN IF argc < 3 THEN Finished(argv, k, InvalidUsage(ens, argv), ens, -1)
                 ELSE LET c == printPosixQueueInfo(ens, f, argv[3])
                      IN  Finished(argv, k, c, ens, IF c.ok THEN 0 ELSE -1)
            ELSE IF argv[2] = S_unlink
            THEN IF argc < 3 THEN Finished(argv, k, InvalidUsage(ens, argv), ens, -1)
                 ELSE LET c == unlinkPosixQueue(ens, f, argv[3])
                      IN  Finished(argv, k, c, ens, IF c.ok THEN 0 ELSE -1)
            ELSE Finished(argv, k, Eprint(ens, [msg |-> "Error: Invalid action", action |-> argv[2]]),
                          ens, -1)

(* ------------------------------------------------------------ environment *)

NoFault ==
    [mkdir |-> OK, mount |-> OK, umount |-> OK, rmdir |-> OK, opendir |-> OK,
     mq_open |-> OK, mq_getattr |-> OK, mq_unlink |-> OK]

\* the errno a call fails with when the environment, not the kernel state
\* modelled here, makes it fail
Injected ==
    [mkdir |-> "EACCES", mount |-> "EPERM", umount |-> "ENOMEM", rmdir |-> "ENOMEM",
     opendir |-> "EMFILE", mq_open |-> "EACCES", mq_getattr |-> "EBADF",
     mq_unlink |-> "EACCES"]

\* the fault vectors that differ from NoFault only on the given calls
Faults(names) ==
    { [n \in DOMAIN NoFault |-> IF n \in F THEN Injected[n] ELSE OK] : F \in SUBSET names }

Perms(S) ==
    { s \in [1..Cardinality(S) -> S] : \A i, j \in 1..Cardinality(S) : s[i] = s[j] => i = j }

DotsFirst == << [d_name |-> <<".">>, d_type |-> "DT_DIR"], [d_name |-> <<".", ".">>, d_type |-> "DT_DIR"] >>

\* the orders readdir may use: the dot entries, then the queues in any order
Orders == { DotsFirst \o s : s \in Perms({ QueueEntry(q) : q \in QueueNames }) }

NoOrder == CHOOSE s \in Orders : TRUE

Kernels ==
    { k \in [dir : BOOLEAN, mounts : 0..1, busy : BOOLEAN,
             queues : UNION { [Q -> Attrs] : Q \in SUBSET QueueNames }] :
        /\ k.mounts > 0 => k.dir
        /\ k.busy => k.mounts > 0 }

NoRun == [argv |-> <<>>, ensRan |-> FALSE]

\* what is remembered of the invocation before the last one
Summary(r) ==
    IF r = NoRun THEN NoRun
    ELSE [argv |-> r.argv, exit |-> r.exit, ensRan |-> r.ensRan, ensOk |-> r.ensOk,
          osEns |-> r.osEns, os |-> r.os]

Init ==
    /\ os \in Kernels
    /\ cur = NoRun
    /\ prev = NoRun
    /\ dirents = <<>>

\* what a run of the program leaves behind: the kernel as main left it, the
\* invocation before it, and the enumeration a listing has read
Recorded(ord) ==
    /\ prev' = Summary(cur)
    /\ os' = cur'.os
    /\ dirents' = IF \E i \in 1..Len(cur'.calls) : cur'.calls[i] = [call |-> "opendir", res |-> OK]
                   THEN Enumeration(cur'.osEns, ord) ELSE <<>>

\* One run of the program per action, by the command it is given.
RunNoArgs ==
    \E argv \in { <<>>, <<S_pq>> } :
        /\ cur' = main(argv, os, NoFault, NoOrder)
        /\ Recorded(NoOrder)

RunLs ==
    \E f \in Faults({"mkdir", "mount", "opendir"}), ord \in Orders :
        /\ cur' = main(<<S_pq, S_ls>>, os, f, ord)
        /\ Recorded(ord)

RunUmount ==
    \E f \in Faults({"mkdir", "mount", "umount", "rmdir"}) :
        /\ cur' = main(<<S_pq, S_umount>>, os, f, NoOrder)
        /\ Recorded(NoOrder)

RunStat ==
    \E f \in Faults({"mkdir", "mount", "mq_open", "mq_getattr"}),
       argv \in { <<S_pq, S_stat>> } \cup { <<S_pq, S_stat, q>> : q \in QueueNames } :
        /\ cur' = main(argv, os, f, NoOrder)
        /\ Recorded(NoOrder)

RunUnlink ==
    \E f \in Faults({"mkdir", "mount", "mq_unlink"}),
       argv \in { <<S_pq, S_unlink>> } \cup { <<S_pq, S_unlink, q>> : q \in QueueNames } :
        /\ cur' = main(argv, os, f, NoOrder)
        /\ Recorded(NoOrder)

RunUnknown ==
    \E f \in Faults({"mkdir", "mount"}) :
        /\ cur' = main(<<S_pq, S_bad>>, os, f, NoOrder)
        /\ Recorded(NoOrder)

\* another process creates a queue (mq_open with O_CREAT)
EnvCreateQueue ==
    \E q \in QueueNames \ DOMAIN os.queues, a \in Attrs :
        /\ os' = [os EXCEPT !.queues = [x \in DOMAIN os.queues \cup {q} |->
                                            IF x = q THEN a ELSE os.queues[x]]]
        /\ cur' = NoRun
        /\ prev' = NoRun
        /\ dirents' = <<>>

\* another process starts or stops using the mounted filesystem
EnvUse ==
    /\ os.mounts > 0
    /\ os' = [os EXCEPT !.busy = ~@]
    /\ cur' = NoRun
    /\ prev' = NoRun
    /\ dirents' = <<>>

Next ==
    \/ RunNoArgs
    \/ RunLs
    \/ RunUmount
    \/ RunStat
    \/ RunUnlink
    \/ RunUnknown
    \/ EnvCreateQueue
    \/ EnvUse

Spec == Init /\ [][Next]_vars

(* ------------------------------------------------- listing specification *)
\* listPosixQueues applied to every directory content of bounded length,
\* whatever the entries are: the loop does not know what filesystem it reads.

EntryKinds ==
    [d_name : { <<".">>, <<".", "b">>, <<"a">>, <<"a", ".">> }, d_type : {"DT_DIR", "DT_REG"}]

BoundedSeq(S, n) == UNION { [1..m -> S] : m \in 0..n }

InitList ==
    /\ os = [dir |-> TRUE, mounts |-> 1, busy |-> FALSE, queues |-> <<>>]
    /\ cur = NoRun
    /\ prev = NoRun
    /\ dirents \in BoundedSeq(EntryKinds, MaxEntries)

ListDir ==
    \E f \in Faults({"opendir"}) :
        /\ cur = NoRun
        /\ cur' = LET c0 == NewProcess(os)
                      c  == listPosixQueues(c0, f, dirents)
                  IN  Finished(<<S_pq, S_ls>>, os, c, c0, IF c.ok THEN 0 ELSE -1)
        /\ UNCHANGED <<os, prev, dirents>>

NextList == ListDir

SpecList == InitList /\ [][NextList]_vars

(* ------------------------------------------------------------------ claims *)

Ran(r) == r # NoRun

CallNames(r) == [i \in 1..Len(r.calls) |-> r.calls[i].call]

Called(r, name) == \E i \in 1..Len(r.calls) : r.calls[i].call = name

Got(r, name, res) == \E i \in 1..Len(r.calls) : r.calls[i] = [call |-> name, res |-> res]

Count(r, name, results) ==
    Cardinality({ i \in 1..Len(r.calls) : r.calls[i].call = name /\ r.calls[i].res \in results })

UsagePrinted(r) ==
    \E i \in 1..Len(r.err) :
        r.err[i] = [msg |-> "Usage", progname |-> IF Len(r.argv) > 0 THEN r.argv[1] ELSE S_pq]

AttributeTags == {"flags", "maxmsg", "msgsize", "curmsgs"}

Errnos == {"EEXIST", "EBUSY", "ENOENT", "EINVAL", "EACCES", "EPERM", "ENOMEM", "EMFILE", "EBADF"}

NoNameGiven(r) ==
    r.argv \in { <<S_pq, S_stat>>, <<S_pq, S_unlink>> }

\* C2, as the claim states it: with no arguments, or with stat or unlink
\* and no queue name, the program prints usage on stderr, exits non-zero
\* and calls neither mkdir nor mount, so the kernel state is unchanged.
C2_Original ==
    (Ran(cur) /\ (Len(cur.argv) < 2 \/ NoNameGiven(cur)))
    => /\ UsagePrinted(cur)
       /\ cur.exit # 0
       /\ ~Called(cur, "mkdir") /\ ~Called(cur, "mount")
       /\ cur.os = cur.os0

\* C2, amended: with no arguments the program prints usage on stderr,
\* exits non-zero and makes no system call.  With stat or unlink and no
\* queue name it exits non-zero and leaves the queue namespace unchanged,
\* but EnsureMounted has run first: the only system calls are its mkdir and
\* mount, and usage is printed exactly when EnsureMounted succeeded.
C2_UsageAfterEnsure ==
    /\ (Ran(cur) /\ Len(cur.argv) < 2)
       => /\ UsagePrinted(cur) /\ cur.out = <<>>
          /\ cur.exit # 0
          /\ cur.calls = <<>>
          /\ cur.os = cur.os0
    /\ (Ran(cur) /\ NoNameGiven(cur))
       => /\ cur.exit # 0
          /\ cur.out = <<>>
          /\ Called(cur, "mkdir")
          /\ \A i \in 1..Len(cur.calls) : cur.calls[i].call \in {"mkdir", "mount"}
          /\ cur.os.queues = cur.os0.queues
          /\ UsagePrinted(cur) <=> cur.ensOk

C2_Witness ==
    /\ Ran(cur) /\ cur.argv = <<S_pq, S_stat>>
    /\ UsagePrinted(cur)
    /\ ~cur.os0.dir /\ cur.os.dir /\ cur.os.mounts = 1

\* C3, as the claim states it: when umount fails for a reason other than
\* EBUSY the Unmount operation fails (non-zero exit) and rmdir is not
\* called; rmdir is called only when umount succeeded.
C3_OtherUmountFailureIsFatal ==
    (Ran(cur) /\ cur.argv = <<S_pq, S_umount>>)
    => /\ (\E e \in Errnos \ {"EBUSY"} : Got(cur, "umount", e))
          => (cur.exit # 0 /\ ~Called(cur, "rmdir"))
       /\ Called(cur, "rmdir") => Got(cur, "umount", OK)

\* the calls of EnsureMounted in r met no failure of the environment's making
EnsureUndisturbed(r) ==
    /\ ~Got(r, "mkdir", Injected.mkdir)
    /\ ~Got(r, "mount", Injected.mount)

MountState(k) == <<k.dir, k.mounts>>

\* C4: EnsureMounted is idempotent.  When EnsureMounted succeeded in one
\* invocation, nothing changed the mount point since, and it runs again in
\* the next invocation with no failure of the environment's making, it
\* succeeds again with no diagnostic and leaves the kernel as the first call
\* left it: the directory exists and the filesystem is mounted exactly once.
C4_EnsureMountedIdempotent ==
    (/\ Ran(prev) /\ prev.ensOk /\ MountState(prev.os) = MountState(prev.osEns)
     /\ Ran(cur) /\ cur.ensRan /\ EnsureUndisturbed(cur))
    => /\ cur.ensOk
       /\ cur.ensErr = <<>>
       /\ cur.osEns = prev.os
       /\ MountState(cur.osEns) = MountState(prev.osEns)
       /\ cur.osEns.dir /\ cur.osEns.mounts = 1

C4_Witness ==
    /\ Ran(prev) /\ prev.ensOk /\ MountState(prev.os) = MountState(prev.osEns)
    /\ Ran(cur) /\ cur.ensOk
    /\ Got(cur, "mkdir", "EEXIST") /\ Got(cur, "mount", "EBUSY")

SuccessfulUnlink(r, q) ==
    Ran(r) /\ r.argv = <<S_pq, S_unlink, q>> /\ r.exit = 0

Lists(r, q) ==
    \E i \in 1..Len(r.out) : r.out[i] = [tag |-> "name", name |-> EntryName(q)]

\* C5: after a successful `unlink q` the queue q is gone from the namespace;
\* an `ls` run next does not print q; an `unlink q` run next, nothing having
\* created q again, exits non-zero and leaves the namespace as it was.
C5_UnlinkRemovesQueue ==
    \A q \in QueueNames :
        /\ SuccessfulUnlink(cur, q)
           => (q \in DOMAIN cur.os0.queues /\ q \notin DOMAIN os.queues)
        /\ (SuccessfulUnlink(prev, q) /\ Ran(cur) /\ cur.argv = <<S_pq, S_ls>>)
           => ~Lists(cur, q)
        /\ (SuccessfulUnlink(prev, q) /\ Ran(cur) /\ cur.argv = <<S_pq, S_unlink, q>>)
           => (cur.exit # 0 /\ os.queues = prev.os.queues)

C5_Witness ==
    \E q \in QueueNames :
        /\ SuccessfulUnlink(prev, q)
        /\ Ran(cur) /\ cur.argv = <<S_pq, S_unlink, q>>
        /\ Got(cur, "mq_unlink", "ENOENT") /\ cur.exit = 255
        /\ os.queues # <<>>

Listed(e) == e.d_type # "DT_DIR" /\ e.d_name[1] # "."

\* C6: a successful List prints exactly the names of the entries that are
\* not directories and do not begin with '.', each once, in the order of
\* the enumeration; it prints the placeholder, and nothing else, exactly
\* when no entry is left after filtering.
C6_ListPrintsFilteredNames ==
    (Ran(cur) /\ cur.argv = <<S_pq, S_ls>> /\ cur.exit = 0)
    => LET kept == SelectSeq(dirents, Listed)
       IN  /\ kept = <<>> => cur.out = <<NoQueues>>
           /\ kept # <<>> => cur.out = [i \in 1..Len(kept) |->
                                          [tag |-> "name", name |-> kept[i].d_name]]
           /\ (\E i \in 1..Len(cur.out) : cur.out[i] = NoQueues) <=> kept = <<>>

C6_Witness ==
    /\ Ran(cur) /\ cur.argv = <<S_pq, S_ls>> /\ cur.exit = 0
    /\ dirents = << [d_name |-> <<"a">>, d_type |-> "DT_DIR"],
                    [d_name |-> <<"a", ".">>, d_type |-> "DT_REG"],
                    [d_name |-> <<".", "b">>, d_type |-> "DT_REG"] >>
    /\ cur.out = << [tag |-> "name", name |-> <<"a", ".">>] >>

\* C7: when Stat returns the process holds no queue descriptor: mq_close is
\* called exactly once after a successful mq_open, also when mq_getattr
\* fails, and is not called when mq_open failed.
C7_StatClosesHandle ==
    (Ran(cur) /\ Len(cur.argv) = 3 /\ cur.argv[2] = S_stat)
    => /\ cur.fds = 0
       /\ Got(cur, "mq_open", OK) => Count(cur, "mq_close", {OK}) = 1
       /\ ~Got(cur, "mq_open", OK) => ~Called(cur, "mq_close")
       /\ Count(cur, "mq_open", Errnos \cup {OK}) <= 1

C7_Witness ==
    /\ Ran(cur) /\ Len(cur.argv) = 3 /\ cur.argv[2] = S_stat
    /\ Got(cur, "mq_open", OK) /\ Got(cur, "mq_getattr", "EBADF")
    /\ Called(cur, "mq_close") /\ cur.fds = 0

SetupFailed(r) ==
    \/ \E e \in Errnos \ {"EEXIST"} : Got(r, "mkdir", e)
    \/ \E e \in Errnos \ {"EBUSY"} : Got(r, "mount", e)

\* C8: when mkdir fails for a reason other than EEXIST, mount is not
\* called; when mkdir or mount fails for a reason not tolerated, the
\* process exits non-zero and makes no system call of any subcommand.
C8_SetupErrorAborts ==
    Ran(cur)
    => /\ (\E e \in Errnos \ {"EEXIST"} : Got(cur, "mkdir", e)) => ~Called(cur, "mount")
       /\ SetupFailed(cur)
          => /\ cur.exit # 0
             /\ \A i \in 1..Len(cur.calls) : cur.calls[i].call \in {"mkdir", "mount"}
             /\ cur.out = <<>>

C8_Witness ==
    /\ Ran(cur) /\ cur.argv = <<S_pq, S_umount>>
    /\ Got(cur, "mkdir", "EACCES")
    /\ cur.os0.mounts = 1 /\ os.mounts = 1 /\ cur.exit = 255

\* no system call of r failed, but for mkdir finding the directory there
NoCallFailed(r) ==
    \A i \in 1..Len(r.calls) :
        \/ r.calls[i].res = OK
        \/ r.calls[i] = [call |-> "mkdir", res |-> "EEXIST"] /\ r.os0.dir

\* C9: `ls` run while the filesystem is not mounted, no system call
\* failing, creates the directory if it is missing, mounts the filesystem
\* and only then opens the mount point; it exits 0 and leaves the
\* filesystem mounted.
C9_LsMountsFirst ==
    (Ran(cur) /\ cur.argv = <<S_pq, S_ls>> /\ cur.os0.mounts = 0 /\ NoCallFailed(cur))
    => /\ CallNames(cur) = <<"mkdir", "mount", "opendir", "closedir">>
       /\ Got(cur, "mkdir", OK) <=> ~cur.os0.dir
       /\ Got(cur, "mount", OK)
       /\ cur.exit = 0
       /\ os.dir /\ os.mounts = 1

C9_Witness ==
    /\ Ran(cur) /\ cur.argv = <<S_pq, S_ls>>
    /\ cur.os0.mounts = 0 /\ cur.os0.dir /\ NoCallFailed(cur)
    /\ Lists(cur, <<"/", "a">>)
    /\ os.mounts = 1

\* C10: `stat` on a queue name that does not exist exits non-zero, prints
\* none of the four attribute lines, never calls mq_getattr and leaves the
\* queue namespace unchanged.
C10_StatMissingQueueFails ==
    (/\ Ran(cur) /\ Len(cur.argv) = 3 /\ cur.argv[2] = S_stat
     /\ cur.argv[3] \notin DOMAIN cur.os0.queues)
    => /\ cur.exit # 0
       /\ \A i \in 1..Len(cur.out) : cur.out[i].tag \notin AttributeTags
       /\ ~Called(cur, "mq_getattr")
       /\ os.queues = cur.os0.queues

C10_Witness ==
    /\ Ran(cur) /\ Len(cur.argv) = 3 /\ cur.argv[2] = S_stat
    /\ cur.argv[3] \notin DOMAIN cur.os0.queues
    /\ Got(cur, "mq_open", "ENOENT") /\ cur.exit = 255
    /\ os.queues # <<>>

====
